---- MODULE Spec2Model ----
(***************************************************************************)
(* FinSight: the conversational agent and its context block (agent.py),    *)
(* the category mapper (categorizer.py), the derived time columns of the   *)
(* loader (data_loader.py) and the chat page of the Streamlit application  *)
(* (app.py).                                                               *)
(*                                                                         *)
(* Strings are sequences of one-character strings, so that str.strip() is  *)
(* computed and not assumed.  A message is a record [type, content].       *)
(*                                                                         *)
(* Six specifications share the module:                                    *)
(*   Spec      one FinSightAgent driven by one caller, calls serialized    *)
(*   SpecLive  Spec plus the assumption that chain.invoke terminates       *)
(*   SpecApp   the AI Agent page: browser sessions, st.session_state and   *)
(*             the process-wide st.cache_resource holding the agents       *)
(*   SpecData  categorize() applied to a loaded DataFrame                  *)
(*   SpecSummary  build_context_summary() and get_summary() applied to a   *)
(*             loaded and categorized DataFrame                            *)
(*   SpecDashboard  the sidebar filters and the Key Metrics row of the     *)
(*             Dashboard next to the agent built by get_agent              *)
(***************************************************************************)
EXTENDS Integers, Sequences, FiniteSets, TLC

(***************************************************************************)
(* Bounds                                                                  *)
(***************************************************************************)
\* stored turns allowed beyond max_turns before the caller stops asking
ExtraTurns == 2

\* turns a transcript or a cached agent's history holds before asking stops
MaxAppTurns == 1

\* rows of the DataFrame handed to categorize
MaxRows == 2

(***************************************************************************)
(* Program constants                                                       *)
(***************************************************************************)
\* agent.py:46
MEMORY_TURNS == 10

\* agent.py:186, the fixed reply to a blank question
FALLBACK == <<"P", "l", "e", "a", "s", "e">>

\* characters str.strip() removes
Whitespace == {" ", "\t", "\n"}

(***************************************************************************)
(* Inputs                                                                  *)
(***************************************************************************)
\* questions a caller passes to ask(): empty, whitespace only, and one with
\* leading and trailing whitespace around a word
Questions == { <<>>, <<" ", "\t">>, <<" ", "a", " ">> }

\* strings chain.invoke may return; the empty string is one of them
Replies == { <<>>, <<"r">> }

\* context summaries an agent may be built from
Contexts == { "summaryA", "summaryB" }

\* max_turns values an agent is constructed with; build_agent uses the default
MaxTurnsChoices == {0, 1, 2, MEMORY_TURNS}

(***************************************************************************)
(* Messages and pure helpers                                               *)
(***************************************************************************)
HumanMessage(c)  == [type |-> "human",  content |-> c]
AIMessage(c)     == [type |-> "ai",     content |-> c]
SystemMessage(c) == [type |-> "system", content |-> c]

Min(a, b) == IF a < b THEN a ELSE b
Max(a, b) == IF a > b THEN a ELSE b

RECURSIVE lstrip(_)
lstrip(s) ==
    IF s # <<>> /\ Head(s) \in Whitespace THEN lstrip(Tail(s)) ELSE s

RECURSIVE rstrip(_)
rstrip(s) ==
    IF s # <<>> /\ s[Len(s)] \in Whitespace
    THEN rstrip(SubSeq(s, 1, Len(s) - 1)) ELSE s

\* mutant of strip: the question is tested without stripping it
strip_mut(s) == s

\* str.strip()
strip(s) == rstrip(lstrip(s))

\* Python's  xs[start:]  for any integer start
SliceFrom(xs, start) ==
    LET n == Len(xs)
        i == IF start < 0 THEN Max(n + start, 0) ELSE Min(start, n)
    IN  SubSeq(xs, i + 1, n)

\* agent.py:190
max_messages(mt) == mt * 2

\* mutant of trimmed_history: the whole history is sent
trimmed_history_mut(h, mt) == h

\* agent.py:191
trimmed_history(h, mt) ==
    IF Len(h) > max_messages(mt) THEN SliceFrom(h, 0 - max_messages(mt)) ELSE h

\* agent.py:249-257, the system prompt with the context summary embedded
system_prompt(context_summary) ==
    << "directives", "--- DATA SUMMARY ---", context_summary,
       "--- END OF DATA SUMMARY ---" >>

\* mutant of prompt: the history placeholder follows the question
prompt_mut(system, hist, input) ==
    <<SystemMessage(system), HumanMessage(input)>> \o hist

\* agent.py:259-263, the messages the prompt template produces.  The system
\* text is itself a template; the context summaries modelled hold no brace, so
\* formatting leaves it as it is, and "{input}" is replaced by the question.
prompt(system, hist, input) ==
    <<SystemMessage(system)>> \o hist \o <<HumanMessage(input)>>

\* mutant of persist_turn: the stripped question is stored
persist_turn_mut(h, q, response) ==
    h \o <<HumanMessage(rstrip(lstrip(q))), AIMessage(response)>>

\* agent.py:200-201
persist_turn(h, q, response) == h \o <<HumanMessage(q), AIMessage(response)>>

(***************************************************************************)
(* Outcome of the most recent call on the agent                            *)
(***************************************************************************)
NoResult    == [kind |-> "none",     value |-> <<>>]
Pending     == [kind |-> "pending",  value |-> <<>>]
Raised      == [kind |-> "raised",   value |-> <<>>]
Returned(v) == [kind |-> "returned", value |-> v]

NoRequest == <<>>

VARIABLES
    \* one FinSightAgent and its caller
    history,      \* agent.history
    max_turns,    \* agent.max_turns
    chain,        \* the system prompt bound into agent.chain
    pc,           \* "Idle" or "AwaitingCompletion" (inside chain.invoke)
    question,     \* argument of the current or most recent ask()
    request,      \* messages in flight to the completion service
    result        \* outcome of the most recent call on the agent

agentVars == <<history, max_turns, chain, pc, question, request, result>>

VARIABLES
    \* the Streamlit application (app.py)
    GROQ_API_KEY, \* the credential in the process environment ("" when unset)
    agents,       \* st.cache_resource of get_agent: sample_size -> FinSightAgent
    sample_size,  \* per session: the "Dataset size" selectbox
    page,         \* per session: the navigation radio
    messages,     \* per session: st.session_state.messages
    run           \* per session: the script run blocked in agent.ask, if any

appVars == <<GROQ_API_KEY, agents, sample_size, page, messages, run>>

VARIABLES
    \* categorize() (categorizer.py)
    df,           \* the DataFrame handed to categorize
    out,          \* the DataFrame categorize returned
    data_pc       \* "loaded", "categorized" or "raised"

dataVars == <<df, out, data_pc>>

VARIABLES
    \* build_context_summary() (agent.py), get_summary() (categorizer.py)
    table,          \* the loaded and categorized DataFrame
    report,         \* the aggregates build_context_summary computed
    block,          \* the context block build_context_summary returned
    summary_table,  \* the DataFrame get_summary returned
    cached_agent,   \* the agent get_agent built on the block, if any
    summary_pc,     \* position of the caller of build_context_summary
    quicksort_ties  \* how this build's unstable sort leaves equal keys

summaryVars == <<table, report, block, summary_table, cached_agent,
                 summary_pc, quicksort_ties>>

VARIABLES
    \* the Dashboard page and the sidebar filters (app.py)
    include_fraud,  \* the "Include fraudulent transactions" toggle
    date_range,     \* the "Select range" slider: <<first month, last month>>
    kpis,           \* the Key Metrics row the Dashboard shows
    dash_pc         \* "idle", "shown" or "raised"

dashVars == <<include_fraud, date_range, kpis, dash_pc>>

vars == <<agentVars, appVars, dataVars, summaryVars, dashVars>>

NoKpis == [kind |-> "none"]

\* the Dashboard before it is used
NoDashboard ==
    /\ include_fraud = FALSE
    /\ date_range = <<>>
    /\ kpis = NoKpis
    /\ dash_pc = "none"

NoReport == [kind |-> "none"]

NoBlock == [kind |-> "none"]

NoTable == [kind |-> "none"]

NoAgent == [kind |-> "none"]

\* build_context_summary and get_summary before they are used
NoSummary ==
    /\ table = <<>>
    /\ report = NoReport
    /\ block = NoBlock
    /\ summary_table = NoTable
    /\ cached_agent = NoAgent
    /\ summary_pc = "none"
    /\ quicksort_ties = "kept"

(***************************************************************************)
(* FinSightAgent                                                           *)
(***************************************************************************)
\* build_agent(context) / FinSightAgent(chain, max_turns = mt)
InitAgent ==
    /\ \E ctx \in Contexts : chain = system_prompt(ctx)
    /\ max_turns \in MaxTurnsChoices
    /\ history = <<>>
    /\ pc = "Idle"
    /\ question = <<>>
    /\ request = NoRequest
    /\ result = NoResult

\* agent.py:185-186, ask() with a question that strips to nothing
ask_blank ==
    /\ pc = "Idle"
    /\ \E q \in Questions :
        /\ strip(q) = <<>>
        /\ question' = q
        /\ result' = Returned(FALLBACK)
    /\ UNCHANGED <<history, max_turns, chain, pc, request>>
    /\ UNCHANGED <<appVars, dataVars, summaryVars, dashVars>>

\* mutant of ask_invoke: the question is stored before chain.invoke is called
ask_invoke_mut ==
    /\ pc = "Idle"
    /\ Len(history) < 2 * (max_turns + ExtraTurns)
    /\ \E q \in Questions :
        /\ strip(q) # <<>>
        /\ question' = q
        /\ request' = prompt(chain, trimmed_history(history, max_turns), q)
        /\ history' = Append(history, HumanMessage(q))
    /\ pc' = "AwaitingCompletion"
    /\ result' = Pending
    /\ UNCHANGED <<max_turns, chain>>
    /\ UNCHANGED <<appVars, dataVars, summaryVars, dashVars>>

\* agent.py:185-197, ask() up to and including the call of chain.invoke
ask_invoke ==
    /\ pc = "Idle"
    /\ Len(history) < 2 * (max_turns + ExtraTurns)
    /\ \E q \in Questions :
        /\ strip(q) # <<>>
        /\ question' = q
        /\ request' = prompt(chain, trimmed_history(history, max_turns), q)
    /\ pc' = "AwaitingCompletion"
    /\ result' = Pending
    /\ UNCHANGED <<history, max_turns, chain>>
    /\ UNCHANGED <<appVars, dataVars, summaryVars, dashVars>>

\* mutant of invoke_returns: only the answer is stored
invoke_returns_mut ==
    /\ pc = "AwaitingCompletion"
    /\ \E response \in Replies :
        /\ history' = Append(history, AIMessage(response))
        /\ result' = Returned(response)
    /\ pc' = "Idle"
    /\ request' = NoRequest
    /\ UNCHANGED <<max_turns, chain, question>>
    /\ UNCHANGED <<appVars, dataVars, summaryVars, dashVars>>

\* agent.py:194-203, chain.invoke returns a string
invoke_returns ==
    /\ pc = "AwaitingCompletion"
    /\ \E response \in Replies :
        /\ history' = persist_turn(history, question, response)
        /\ result' = Returned(response)
    /\ pc' = "Idle"
    /\ request' = NoRequest
    /\ UNCHANGED <<max_turns, chain, question>>
    /\ UNCHANGED <<appVars, dataVars, summaryVars, dashVars>>

\* mutant of invoke_raises: the question is stored although the call failed
invoke_raises_mut ==
    /\ pc = "AwaitingCompletion"
    /\ history' = Append(history, HumanMessage(question))
    /\ result' = Raised
    /\ pc' = "Idle"
    /\ request' = NoRequest
    /\ UNCHANGED <<max_turns, chain, question>>
    /\ UNCHANGED <<appVars, dataVars, summaryVars, dashVars>>

\* agent.py:194, chain.invoke raises and ask() propagates the exception
invoke_raises ==
    /\ pc = "AwaitingCompletion"
    /\ result' = Raised
    /\ pc' = "Idle"
    /\ request' = NoRequest
    /\ UNCHANGED <<history, max_turns, chain, question>>
    /\ UNCHANGED <<appVars, dataVars, summaryVars, dashVars>>

\* mutant of clear_history: only the oldest turn is dropped
clear_history_mut ==
    /\ pc = "Idle"
    /\ history' = SliceFrom(history, 2)
    /\ result' = NoResult
    /\ UNCHANGED <<max_turns, chain, pc, question, request>>
    /\ UNCHANGED <<appVars, dataVars, summaryVars, dashVars>>

\* agent.py:205-207
clear_history ==
    /\ pc = "Idle"
    /\ history' = <<>>
    /\ result' = NoResult
    /\ UNCHANGED <<max_turns, chain, pc, question, request>>
    /\ UNCHANGED <<appVars, dataVars, summaryVars, dashVars>>

(***************************************************************************)
(* The Streamlit application: the AI Agent page                            *)
(***************************************************************************)
\* browser sessions, each with its own st.session_state
Sessions == {"s1", "s2"}

\* app.py:106-110, values of the "Dataset size" options (two of the three)
SampleSizes == {"50000", "200000"}

\* app.py:114, index=0
DefaultSampleSize == "50000"

\* app.py:129, the first option is the default
Pages == {"Dashboard", "AI Agent"}

\* app.py:275-281, the starter questions (one of the five)
starters == { <<"w", "h", "e", "n">> }

\* texts typed into st.chat_input: a word and a whitespace-only text
ChatInputs == { <<"a">>, <<" ">> }

\* replies of the completion service to the application
AppReplies == { <<"r">> }

\* transcript entries, app.py:263
UserEntry(c)      == [role |-> "user",      content |-> c]
AssistantEntry(c) == [role |-> "assistant", content |-> c]

\* a script run: its position, the ask it is blocked in, and `cleared`, which
\* records that the agent's history was cleared since the run entered ask
\* (a history variable of the model; the code keeps no such flag)
NotRunning ==
    [pc |-> "Idle", question |-> <<>>, key |-> "", request |-> NoRequest,
     cleared |-> FALSE]

\* app.py:78-83 and 89-90: the context summary of the data of one sample size
context_of(k) == k

\* agent.py:233-268, build_agent with the credential present
FinSightAgent(context_summary) ==
    [chain |-> system_prompt(context_summary), history |-> <<>>,
     max_turns |-> MEMORY_TURNS]

\* app.py:86-91, get_agent behind st.cache_resource: the cache after the call.
\* One entry per argument value, shared by every session of the process.
get_agent(cache, k) ==
    IF k \in DOMAIN cache THEN cache
    ELSE cache @@ (k :> FinSightAgent(context_of(k)))

\* mutant of agent_page_prologue: build_agent does not look at the key
agent_page_prologue_mut(cache, p, k) ==
    IF p = "AI Agent" THEN get_agent(cache, k) ELSE cache

\* app.py:253-270: what a script run does to the cache before the chat widgets
agent_page_prologue(cache, p, k) ==
    IF p = "AI Agent" /\ GROQ_API_KEY # "" THEN get_agent(cache, k) ELSE cache

\* the chat widgets are rendered: the page is open and get_agent did not raise
ChatReady(s) ==
    /\ page[s] = "AI Agent"
    /\ GROQ_API_KEY # ""
    /\ run[s].pc = "Idle"
    /\ sample_size[s] \in DOMAIN agents

InitApp ==
    /\ GROQ_API_KEY \in {"", "gsk"}
    /\ agents = <<>>
    /\ sample_size = [s \in Sessions |-> DefaultSampleSize]
    /\ page = [s \in Sessions |-> "Dashboard"]
    /\ messages = [s \in Sessions |-> <<>>]
    /\ run = [s \in Sessions |-> NotRunning]

\* the application is not part of the specification
AppNotStarted ==
    /\ GROQ_API_KEY = ""
    /\ agents = <<>>
    /\ sample_size = [s \in Sessions |-> DefaultSampleSize]
    /\ page = [s \in Sessions |-> "Dashboard"]
    /\ messages = [s \in Sessions |-> <<>>]
    /\ run = [s \in Sessions |-> NotRunning]

\* app.py:111-117, the selectbox changes and the script reruns
select_sample_size ==
    \E s \in Sessions, k \in SampleSizes :
        /\ run[s].pc = "Idle"
        /\ k # sample_size[s]
        /\ sample_size' = [sample_size EXCEPT ![s] = k]
        /\ agents' = agent_page_prologue(agents, page[s], k)
        /\ UNCHANGED <<GROQ_API_KEY, page, messages, run>>
        /\ UNCHANGED <<agentVars, dataVars, summaryVars, dashVars>>

\* app.py:127-131, the radio changes and the script reruns
navigate ==
    \E s \in Sessions, p \in Pages :
        /\ run[s].pc = "Idle"
        /\ p # page[s]
        /\ page' = [page EXCEPT ![s] = p]
        /\ agents' = agent_page_prologue(agents, p, sample_size[s])
        /\ UNCHANGED <<GROQ_API_KEY, sample_size, messages, run>>
        /\ UNCHANGED <<agentVars, dataVars, summaryVars, dashVars>>

\* the agent after ask() has returned response for q
agent_after_turn(a, q, response) ==
    [a EXCEPT !.history = persist_turn(a.history, q, response)]

\* the script run of session s enters agent.ask(q) and blocks in chain.invoke
enter_ask(s, q) ==
    LET k == sample_size[s]
        a == agents[k]
    IN  /\ Len(a.history) < 2 * MaxAppTurns
        /\ Len(messages[s]) + 2 <= 2 * MaxAppTurns
        /\ messages' = [messages EXCEPT ![s] = Append(@, UserEntry(q))]
        /\ run' = [run EXCEPT ![s] =
                     [pc |-> "Thinking", question |-> q, key |-> k,
                      request |-> prompt(a.chain,
                                    trimmed_history(a.history, a.max_turns), q),
                      cleared |-> FALSE]]
        /\ UNCHANGED <<GROQ_API_KEY, agents, sample_size, page>>

\* app.py:273-287, a starter button is clicked
starter_clicked ==
    \E s \in Sessions, q \in starters :
        /\ ChatReady(s)
        /\ messages[s] = <<>>
        /\ enter_ask(s, q)
        /\ UNCHANGED <<agentVars, dataVars, summaryVars, dashVars>>

\* app.py:297-306, a text is submitted and agent.ask calls chain.invoke
chat_input_asked ==
    \E s \in Sessions, q \in ChatInputs :
        /\ ChatReady(s)
        /\ strip(q) # <<>>
        /\ enter_ask(s, q)
        /\ UNCHANGED <<agentVars, dataVars, summaryVars, dashVars>>

\* app.py:297-309 with agent.py:185-186: a blank text is submitted
chat_input_blank ==
    \E s \in Sessions, q \in ChatInputs :
        /\ ChatReady(s)
        /\ strip(q) = <<>>
        /\ Len(messages[s]) + 2 <= 2 * MaxAppTurns
        /\ messages' = [messages EXCEPT ![s] =
                          @ \o <<UserEntry(q), AssistantEntry(FALLBACK)>>]
        /\ UNCHANGED <<GROQ_API_KEY, agents, sample_size, page, run>>
        /\ UNCHANGED <<agentVars, dataVars, summaryVars, dashVars>>

\* agent.py:194-203, then app.py:288-289 or 307-309: the reply arrives
chat_reply ==
    \E s \in Sessions, response \in AppReplies :
        /\ run[s].pc = "Thinking"
        /\ agents' = [agents EXCEPT ![run[s].key] =
                        agent_after_turn(@, run[s].question, response)]
        /\ messages' = [messages EXCEPT ![s] = Append(@, AssistantEntry(response))]
        /\ run' = [run EXCEPT ![s] = NotRunning]
        /\ UNCHANGED <<GROQ_API_KEY, sample_size, page>>
        /\ UNCHANGED <<agentVars, dataVars, summaryVars, dashVars>>

\* agent.py:194: chain.invoke raises, the exception ends the script run
chat_error ==
    \E s \in Sessions :
        /\ run[s].pc = "Thinking"
        /\ run' = [run EXCEPT ![s] = NotRunning]
        /\ UNCHANGED <<GROQ_API_KEY, agents, sample_size, page, messages>>
        /\ UNCHANGED <<agentVars, dataVars, summaryVars, dashVars>>

\* app.py:312-316, the clear button
clear_conversation ==
    \E s \in Sessions :
        /\ ChatReady(s)
        /\ messages[s] # <<>>
        /\ messages' = [messages EXCEPT ![s] = <<>>]
        /\ agents' = [agents EXCEPT ![sample_size[s]].history = <<>>]
        /\ run' = [t \in Sessions |->
                     IF run[t].pc = "Thinking" /\ run[t].key = sample_size[s]
                     THEN [run[t] EXCEPT !.cleared = TRUE]
                     ELSE run[t]]
        /\ UNCHANGED <<GROQ_API_KEY, sample_size, page>>
        /\ UNCHANGED <<agentVars, dataVars, summaryVars, dashVars>>

(***************************************************************************)
(* categorizer.py                                                          *)
(***************************************************************************)
\* the missing value of pandas (NaN / None)
NaN == "<NaN>"

\* categorizer.py:31-53
CATEGORY_MAP ==
    [c \in {"food_dining", "grocery_pos", "grocery_net"} |-> "Food & Groceries"]
    @@ [c \in {"shopping_pos", "shopping_net"} |-> "Shopping"]
    @@ [c \in {"gas_transport", "travel"} |-> "Transport & Travel"]
    @@ [c \in {"entertainment"} |-> "Entertainment"]
    @@ [c \in {"health_fitness", "personal_care"} |-> "Health & Wellness"]
    @@ [c \in {"home", "kids_pets"} |-> "Home & Family"]
    @@ [c \in {"misc_pos", "misc_net"} |-> "Miscellaneous"]

\* categorizer.py:56-64
CATEGORY_ORDER ==
    << "Food & Groceries", "Shopping", "Transport & Travel", "Entertainment",
       "Health & Wellness", "Home & Family", "Miscellaneous" >>

\* values of the raw category column: the 14 known labels, labels the table
\* does not hold (one differing from a key in case only) and the missing value
RawCategories ==
    DOMAIN CATEGORY_MAP \cup {"unknown_x", "Grocery_pos", "", NaN}

\* values of the amount column
Amounts == {50, 100}

\* Series.map(dict) on one value: a value that is no key, the missing value
\* included, becomes the missing value
series_map(v, d) == IF v \in DOMAIN d THEN d[v] ELSE NaN

\* Series.fillna(value) on one value
fillna(v, value) == IF v = NaN THEN value ELSE v

\* mutant of spending_category: the fillna step is missing
spending_category_mut(row) == series_map(row.category, CATEGORY_MAP)

\* categorizer.py:109-113, the new column for one row
spending_category(row) ==
    fillna(series_map(row.category, CATEGORY_MAP), "Miscellaneous")

\* categorizer.py:157-163, _validate_input (an empty frame has its columns too)
has_category_column(frame) == \A i \in 1..Len(frame) : "category" \in DOMAIN frame[i]

RowsWithCategory == [amount : Amounts, category : RawCategories]
RowsWithoutCategory == [amount : Amounts]

SeqsUpTo(S, n) == UNION { [1..k -> S] : k \in 0..n }

InitData ==
    /\ df \in SeqsUpTo(RowsWithCategory, MaxRows)
             \cup (SeqsUpTo(RowsWithoutCategory, MaxRows) \ {<<>>})
    /\ out = <<>>
    /\ data_pc = "loaded"

\* categorizer.py:83-115, categorize(df) returns the enriched copy
categorize ==
    /\ data_pc = "loaded"
    /\ has_category_column(df)
    /\ out' = [i \in 1..Len(df) |->
                 [amount |-> df[i].amount, category |-> df[i].category,
                  spending_category |-> spending_category(df[i])]]
    /\ data_pc' = "categorized"
    /\ UNCHANGED df
    /\ UNCHANGED <<agentVars, appVars, summaryVars, dashVars>>

\* categorizer.py:105 and 157-163, categorize(df) raises ValueError
categorize_raises ==
    /\ data_pc = "loaded"
    /\ ~has_category_column(df)
    /\ data_pc' = "raised"
    /\ UNCHANGED <<df, out>>
    /\ UNCHANGED <<agentVars, appVars, summaryVars, dashVars>>

NoData == df = <<>> /\ out = <<>> /\ data_pc = "none"

Init == InitAgent /\ AppNotStarted /\ NoData /\ NoSummary /\ NoDashboard

Next ==
    \/ ask_blank
    \/ ask_invoke
    \/ invoke_returns
    \/ invoke_raises
    \/ clear_history

Spec == Init /\ [][Next]_vars

\* FinSightAgent(chain) before the application is used
AgentUnused ==
    /\ chain = system_prompt("summaryA")
    /\ max_turns = MEMORY_TURNS
    /\ history = <<>>
    /\ pc = "Idle"
    /\ question = <<>>
    /\ request = NoRequest
    /\ result = NoResult

InitAppSpec == InitApp /\ AgentUnused /\ NoData /\ NoSummary /\ NoDashboard

NextApp ==
    \/ select_sample_size
    \/ navigate
    \/ starter_clicked
    \/ chat_input_asked
    \/ chat_input_blank
    \/ chat_reply
    \/ chat_error
    \/ clear_conversation

SpecApp == InitAppSpec /\ [][NextApp]_vars

InitDataSpec == InitData /\ AgentUnused /\ AppNotStarted /\ NoSummary /\ NoDashboard

NextData ==
    \/ categorize
    \/ categorize_raises

SpecData == InitDataSpec /\ [][NextData]_vars

\* the completion service eventually answers or raises
SpecLive == Spec /\ WF_vars(invoke_returns \/ invoke_raises)

(***************************************************************************)
(* load_data (data_loader.py): the derived time columns                    *)
(*                                                                         *)
(* A timestamp is a record [year, month, day, hour].  Amounts are whole     *)
(* cents, so sums are exact; the float64 rounding of pandas is not         *)
(* modelled.                                                               *)
(***************************************************************************)
\* rows of the DataFrame handed to build_context_summary and get_summary
MaxSummaryRows == 3

\* rows of the long frames that reach the top-10 and the 6-month cut
MaxLongRows == 12

\* .head(10) of the merchant ranking
TOP_MERCHANTS == 10

\* .tail(6) of the monthly totals
LAST_MONTHS == 6

WeekDays ==
    <<"Monday", "Tuesday", "Wednesday", "Thursday", "Friday", "Saturday",
      "Sunday">>

MonthAbbr ==
    <<"Jan", "Feb", "Mar", "Apr", "May", "Jun", "Jul", "Aug", "Sep", "Oct",
      "Nov", "Dec">>

MonthFull ==
    <<"January", "February", "March", "April", "May", "June", "July",
      "August", "September", "October", "November", "December">>

IsLeap(y) == (y % 4 = 0 /\ y % 100 # 0) \/ y % 400 = 0

DaysInMonth(y, m) ==
    CASE m \in {4, 6, 9, 11} -> 30
      [] m = 2 -> IF IsLeap(y) THEN 29 ELSE 28
      [] OTHER -> 31

RECURSIVE DaysBeforeMonth(_, _)
DaysBeforeMonth(y, m) ==
    IF m = 1 THEN 0 ELSE DaysBeforeMonth(y, m - 1) + DaysInMonth(y, m - 1)

\* days from Monday 1 January 2018 to 1 January of year y
RECURSIVE DaysBeforeYear(_)
DaysBeforeYear(y) ==
    IF y <= 2018 THEN 0
    ELSE DaysBeforeYear(y - 1) + (IF IsLeap(y - 1) THEN 366 ELSE 365)

Ordinal(ts) ==
    DaysBeforeYear(ts.year) + DaysBeforeMonth(ts.year, ts.month) + ts.day - 1

\* the order of timestamps: .min() and .max() of the datetime column
Instant(ts) == Ordinal(ts) * 24 + ts.hour

\* dt.day_name()
day_name(ts) == WeekDays[(Ordinal(ts) % 7) + 1]

\* dt.strftime("%b %Y"), the year kept as a number
month_name(ts) == <<MonthAbbr[ts.month], ts.year>>

Stamp(y, m, d, h) == [year |-> y, month |-> m, day |-> d, hour |-> h]

\* a record as load_data reads it: the columns build_context_summary uses
Raw(ts, merchant, category, cents, fraud) ==
    [datetime |-> ts, merchant |-> merchant, category |-> category,
     amount |-> cents, is_fraud |-> fraud]

\* load_data's derived columns followed by categorize's spending_category
tidy(raw) ==
    [datetime |-> raw.datetime,
     merchant |-> raw.merchant,
     category |-> raw.category,
     amount |-> raw.amount,
     is_fraud |-> raw.is_fraud,
     year |-> raw.datetime.year,
     month |-> raw.datetime.month,
     month_name |-> month_name(raw.datetime),
     day_of_week |-> day_name(raw.datetime),
     hour |-> raw.datetime.hour,
     spending_category |-> spending_category(raw)]

\* the records short frames are drawn from: equal amounts on a Monday and a
\* Friday, at two hours, in two categories and at two merchants; a December
\* before a January; fraud and no fraud; an amount above 1,000.00 and a zero
RecordPool ==
    { Raw(Stamp(2019, 1, 7, 14), "Kirlin", "grocery_pos", 10000, 0),
      Raw(Stamp(2019, 2, 1, 9), "Abbott", "unknown_x", 5000, 0),
      Raw(Stamp(2019, 1, 11, 9), "Zieme", "entertainment", 10000, 0),
      Raw(Stamp(2018, 12, 30, 23), "Boyer", "shopping_pos", 50000, 1),
      Raw(Stamp(2019, 3, 5, 0), "Cormier", "gas_transport", 30000, 0),
      Raw(Stamp(2019, 3, 6, 14), "Abbott", "home", 20000, 0),
      Raw(Stamp(2020, 2, 29, 7), "Kirlin", "misc_net", 150000, 1),
      Raw(Stamp(2019, 1, 7, 9), "Zieme", "health_fitness", 0, 0) }

\* the merchants of the long frames, in ascending lexical order
LongMerchants ==
    <<"Ma", "Mb", "Mc", "Md", "Me", "Mf", "Mg", "Mh", "Mi", "Mj", "Mk",
      "Ml", "Mm", "Mn">>

\* every merchant name in ascending lexical order
MerchantsSorted ==
    <<"Abbott", "Boyer", "Cormier", "Kirlin">> \o LongMerchants
        \o <<"Zieme">>

LongCategories ==
    <<"grocery_pos", "travel", "kids_pets", "unknown_x", "shopping_net">>

\* the i-th record of a long frame: one merchant and one month each, from
\* September 2018 on, with repeated amounts
LongRecord(i) ==
    Raw(Stamp(2018 + ((i + 7) \div 12), ((i + 7) % 12) + 1, i, i % 24),
        LongMerchants[i],
        LongCategories[(i % Len(LongCategories)) + 1],
        (1 + ((i * 5) % 4)) * 25000,
        IF i % 5 = 0 THEN 1 ELSE 0)

Reverse(s) == [i \in 1..Len(s) |-> s[Len(s) + 1 - i]]

Rotate(s, k) == [i \in 1..Len(s) |-> s[((i + k - 1) % Len(s)) + 1]]

LongFrames ==
    LET n == IF MaxLongRows < Len(LongMerchants) THEN MaxLongRows
             ELSE Len(LongMerchants)
    IN  UNION { LET f == [i \in 1..k |-> LongRecord(i)]
                IN  {f, Reverse(f), Rotate(f, k \div 2)} : k \in 7..n }

\* the DataFrames build_context_summary and get_summary are applied to
Frames ==
    { [i \in DOMAIN f |-> tidy(f[i])] :
        f \in SeqsUpTo(RecordPool, MaxSummaryRows) \cup LongFrames }

(***************************************************************************)
(* pandas: groupby, sort_values, head, tail, idxmax                        *)
(***************************************************************************)
RECURSIVE SumSeq(_)
SumSeq(s) == IF s = <<>> THEN 0 ELSE Head(s) + SumSeq(Tail(s))

Column(frame, c) == [i \in DOMAIN frame |-> frame[i][c]]

Values(s) == { s[i] : i \in DOMAIN s }

\* the labels of CATEGORY_ORDER in ascending lexical order
CategoriesSorted ==
    <<"Entertainment", "Food & Groceries", "Health & Wellness",
      "Home & Family", "Miscellaneous", "Shopping", "Transport & Travel">>

\* the day names in ascending lexical order
DaysSorted ==
    <<"Friday", "Monday", "Saturday", "Sunday", "Thursday", "Tuesday",
      "Wednesday">>

RECURSIVE ascending(_)
ascending(S) ==
    IF S = {} THEN <<>>
    ELSE LET m == CHOOSE x \in S : \A y \in S : x <= y
         IN  <<m>> \o ascending(S \ {m})

\* mutant of group_keys: groupby(c, sort=False), the keys in the order of
\* their first row
group_keys_mut(frame, c, order) ==
    LET col == Column(frame, c)
        first == ascending({ i \in DOMAIN col :
                              \A j \in 1..(i - 1) : col[j] # col[i] })
    IN  [k \in DOMAIN first |-> col[first[k]]]

\* groupby(c) sorts the group keys: the keys present, in the order of `order`
group_keys(frame, c, order) ==
    SelectSeq(order, LAMBDA k : k \in Values(Column(frame, c)))

group_rows(frame, c, k) == SelectSeq(frame, LAMBDA r : r[c] = k)

\* groupby(c)["amount"].sum() for one key
group_sum(frame, c, k) == SumSeq(Column(group_rows(frame, c, k), "amount"))

\* position i is placed before position j by a descending sort on keys; the
\* default kind is quicksort, which is not stable: `ties` is what the build
\* does with equal keys
before_desc(keys, ties, i, j) ==
    \/ keys[i] > keys[j]
    \/ /\ keys[i] = keys[j]
       /\ IF ties = "kept" THEN i < j ELSE i > j

\* sort_values(ascending=False): the positions in their sorted order
nargsort_desc(keys, ties) ==
    [k \in DOMAIN keys |->
        CHOOSE i \in DOMAIN keys :
            Cardinality({ j \in DOMAIN keys : before_desc(keys, ties, j, i) })
                = k - 1]

\* sort_values([...]) on several columns is a stable lexsort; keys are
\* numbers here (year * 12 + month)
lexsort_asc(keys) ==
    [k \in DOMAIN keys |->
        CHOOSE i \in DOMAIN keys :
            Cardinality({ j \in DOMAIN keys :
                            \/ keys[j] < keys[i]
                            \/ keys[j] = keys[i] /\ j < i }) = k - 1]

take(rows, perm) == [k \in DOMAIN perm |-> rows[perm[k]]]

head(s, n) == SubSeq(s, 1, Min(n, Len(s)))

tail(s, n) == SubSeq(s, Max(1, Len(s) - n + 1), Len(s))

\* Series.idxmax(): the first label, in index order, holding the maximum
idxmax(keys, values) ==
    keys[CHOOSE i \in DOMAIN values :
            /\ \A j \in DOMAIN values : values[j] <= values[i]
            /\ \A j \in 1..(i - 1) : values[j] < values[i]]

(***************************************************************************)
(* Format specifications of the f-strings                                  *)
(*                                                                         *)
(* A rendered number is a sequence of characters.  The padding of the      *)
(* width specifiers (<22, >12, >6, <40, >10, <12) only adds spaces and is  *)
(* left out.                                                               *)
(***************************************************************************)
Digit == <<"0", "1", "2", "3", "4", "5", "6", "7", "8", "9">>

RECURSIVE digits(_)
digits(n) ==
    IF n < 10 THEN <<Digit[n + 1]>>
    ELSE digits(n \div 10) \o <<Digit[(n % 10) + 1]>>

\* the "," option: groups of three from the right
RECURSIVE group3(_)
group3(ds) ==
    IF Len(ds) <= 3 THEN ds
    ELSE group3(SubSeq(ds, 1, Len(ds) - 3)) \o <<",">>
            \o SubSeq(ds, Len(ds) - 2, Len(ds))

two_digits(n) == <<Digit[(n \div 10) + 1], Digit[(n % 10) + 1]>>

\* num / den rounded to a whole number, halves to even
round_half_even(num, den) ==
    LET q == num \div den
        r == num % den
    IN  IF 2 * r > den \/ (2 * r = den /\ q % 2 = 1) THEN q + 1 ELSE q

nan == <<"n", "a", "n">>

\* f"{x:,.2f}" of an amount of whole cents
format_comma_2f(cents) ==
    group3(digits(cents \div 100)) \o <<".">> \o two_digits(cents % 100)

\* f"{x:.2f}" of num / den hundredths
format_2f(num, den) ==
    LET h == round_half_even(num, den)
    IN  digits(h \div 100) \o <<".">> \o two_digits(h % 100)

\* f"{x:.1f}" of num / den tenths; 0.0 / 0.0 of float64 is nan
format_1f(num, den) ==
    IF den = 0 THEN nan
    ELSE LET t == round_half_even(num, den)
         IN  digits(t \div 10) \o <<".", Digit[(t % 10) + 1]>>

\* f"{n:,}" of a count
format_comma(n) == group3(digits(n))

\* f"{hour:02d}"
format_02d(n) == IF n < 10 THEN <<"0">> \o digits(n) ELSE digits(n)

\* strftime("%B %d, %Y"), the year kept as a number
strftime_B_d_Y(ts) == <<MonthFull[ts.month], two_digits(ts.day), ts.year>>

(***************************************************************************)
(* build_context_summary (agent.py) and get_summary (categorizer.py)       *)
(***************************************************************************)
\* mutant of cat_summary: a row for every canonical category, with or
\* without records
cat_summary_mut(frame, ties) ==
    LET keys == CategoriesSorted
        rows == [i \in DOMAIN keys |->
                    [spending_category |-> keys[i],
                     total |-> group_sum(frame, "spending_category", keys[i]),
                     count |-> Len(group_rows(frame, "spending_category",
                                              keys[i]))]]
    IN  take(rows, nargsort_desc(Column(rows, "total"), ties))

\* groupby("spending_category")["amount"].agg(total="sum", count="count")
\*   .reset_index().sort_values("total", ascending=False)
cat_summary(frame, ties) ==
    LET keys == group_keys(frame, "spending_category", CategoriesSorted)
        rows == [i \in DOMAIN keys |->
                    [spending_category |-> keys[i],
                     total |-> group_sum(frame, "spending_category", keys[i]),
                     count |-> Len(group_rows(frame, "spending_category",
                                              keys[i]))]]
    IN  take(rows, nargsort_desc(Column(rows, "total"), ties))

\* groupby("merchant")["amount"].sum().sort_values(ascending=False)
merchant_ranking(frame, ties) ==
    LET keys == group_keys(frame, "merchant", MerchantsSorted)
        rows == [i \in DOMAIN keys |->
                    [merchant |-> keys[i],
                     amount |-> group_sum(frame, "merchant", keys[i])]]
    IN  take(rows, nargsort_desc(Column(rows, "amount"), ties))

top_merchants(frame, ties) == head(merchant_ranking(frame, ties), TOP_MERCHANTS)

\* the number of a (year, month) period
period(y, m) == y * 12 + m - 1

\* groupby(["year", "month", "month_name"])["amount"].sum().reset_index()
monthly_totals(frame) ==
    LET p(r) == period(r.year, r.month)
        keys == ascending({ p(frame[i]) : i \in DOMAIN frame })
    IN  [i \in DOMAIN keys |->
            LET rows == SelectSeq(frame, LAMBDA r : p(r) = keys[i])
            IN  [year |-> rows[1].year, month |-> rows[1].month,
                 month_name |-> rows[1].month_name,
                 amount |-> SumSeq(Column(rows, "amount"))]]

\* mutant of monthly: sorted by the month number alone
monthly_mut(frame) ==
    LET rows == monthly_totals(frame)
        keys == [i \in DOMAIN rows |-> rows[i].month]
    IN  tail(take(rows, lexsort_asc(keys)), LAST_MONTHS)

\*   .sort_values(["year", "month"]).tail(6)
monthly(frame) ==
    LET rows == monthly_totals(frame)
        keys == [i \in DOMAIN rows |-> period(rows[i].year, rows[i].month)]
    IN  tail(take(rows, lexsort_asc(keys)), LAST_MONTHS)

\* groupby("day_of_week")["amount"].sum().idxmax()
peak_day(frame) ==
    LET keys == group_keys(frame, "day_of_week", DaysSorted)
    IN  idxmax(keys, [i \in DOMAIN keys |->
                        group_sum(frame, "day_of_week", keys[i])])

\* groupby("hour")["amount"].sum().idxmax()
peak_hour(frame) ==
    LET keys == ascending(Values(Column(frame, "hour")))
    IN  idxmax(keys, [i \in DOMAIN keys |->
                        group_sum(frame, "hour", keys[i])])

\* df["datetime"].min() and .max(): NaT for an empty column
NaT == [NaT |-> TRUE]

datetime_min(frame) ==
    IF frame = <<>> THEN NaT
    ELSE LET i == CHOOSE i \in DOMAIN frame : \A j \in DOMAIN frame :
                    Instant(frame[i].datetime) <= Instant(frame[j].datetime)
         IN  frame[i].datetime

datetime_max(frame) ==
    IF frame = <<>> THEN NaT
    ELSE LET i == CHOOSE i \in DOMAIN frame : \A j \in DOMAIN frame :
                    Instant(frame[i].datetime) >= Instant(frame[j].datetime)
         IN  frame[i].datetime

\* the numbers build_context_summary computes before it renders them
aggregates(frame, ties) ==
    [kind |-> "report",
     total_spend |-> SumSeq(Column(frame, "amount")),
     total_txns |-> Len(frame),
     date_min |-> strftime_B_d_Y(datetime_min(frame)),
     date_max |-> strftime_B_d_Y(datetime_max(frame)),
     max_txn |-> CHOOSE a \in Values(Column(frame, "amount")) :
                    \A b \in Values(Column(frame, "amount")) : b <= a,
     fraud_count |-> SumSeq(Column(frame, "is_fraud")),
     cat_summary |-> cat_summary(frame, ties),
     top_merchants |-> top_merchants(frame, ties),
     monthly |-> monthly(frame),
     peak_day |-> peak_day(frame),
     peak_hour |-> peak_hour(frame)]

\* mutant of cat_lines: the share is taken of the largest category total
cat_lines_mut(r) ==
    [i \in DOMAIN r.cat_summary |->
        LET row == r.cat_summary[i]
        IN  [name |-> row.spending_category,
             total |-> format_comma_2f(row.total),
             pct |-> format_1f(1000 * row.total, r.cat_summary[1].total),
             count |-> format_comma(row.count)]]

cat_lines(r) ==
    [i \in DOMAIN r.cat_summary |->
        LET row == r.cat_summary[i]
        IN  [name |-> row.spending_category,
             total |-> format_comma_2f(row.total),
             pct |-> format_1f(1000 * row.total, r.total_spend),
             count |-> format_comma(row.count)]]

merch_lines(r) ==
    [i \in DOMAIN r.top_merchants |->
        [rank |-> digits(i),
         name |-> r.top_merchants[i].merchant,
         spend |-> format_comma_2f(r.top_merchants[i].amount)]]

monthly_lines(r) ==
    [i \in DOMAIN r.monthly |->
        [month_name |-> r.monthly[i].month_name,
         amount |-> format_comma_2f(r.monthly[i].amount)]]

\* mutant of fraud_pct: the ratio without the factor 100
fraud_pct_mut(r) == [num |-> r.fraud_count, den |-> r.total_txns]

\* fraud_pct = 100 * fraud_count / total_txns, as a quotient
fraud_pct(r) == [num |-> 100 * r.fraud_count, den |-> r.total_txns]

\* the f-string build_context_summary returns, field by field
context_block(r) ==
    [kind |-> "block",
     date_range |-> <<r.date_min, r.date_max>>,
     total_spend |-> format_comma_2f(r.total_spend),
     total_txns |-> format_comma(r.total_txns),
     avg_txn |-> format_2f(r.total_spend, r.total_txns),
     max_txn |-> format_comma_2f(r.max_txn),
     fraud_count |-> format_comma(r.fraud_count),
     fraud_pct |-> format_2f(100 * fraud_pct(r).num, fraud_pct(r).den),
     cat_lines |-> cat_lines(r),
     merch_lines |-> merch_lines(r),
     monthly_lines |-> monthly_lines(r),
     peak_day |-> r.peak_day,
     peak_hour |-> format_02d(r.peak_hour)]

\* get_summary: per category total_spent, transaction_count and
\* avg_transaction, sorted by total_spent descending, rounded to 2 places
get_summary_table(frame, ties) ==
    LET keys == group_keys(frame, "spending_category", CategoriesSorted)
        rows == [i \in DOMAIN keys |->
                    LET g == group_rows(frame, "spending_category", keys[i])
                    IN  [spending_category |-> keys[i],
                         total_spent |-> SumSeq(Column(g, "amount")),
                         transaction_count |-> Len(g),
                         avg_transaction |->
                            round_half_even(SumSeq(Column(g, "amount")),
                                            Len(g))]]
    IN  take(rows, nargsort_desc(Column(rows, "total_spent"), ties))

InitSummary ==
    /\ table \in Frames
    /\ report = NoReport
    /\ block = NoBlock
    /\ summary_table = NoTable
    /\ cached_agent = NoAgent
    /\ summary_pc = "loaded"
    /\ quicksort_ties \in {"kept", "reversed"}

\* build_context_summary(df) on a frame with rows
build_context_summary ==
    /\ summary_pc = "loaded"
    /\ table # <<>>
    /\ report' = aggregates(table, quicksort_ties)
    /\ block' = context_block(report')
    /\ summary_pc' = "summarized"
    /\ UNCHANGED <<table, summary_table, cached_agent, quicksort_ties>>
    /\ UNCHANGED <<agentVars, appVars, dataVars, dashVars>>

\* mutant of build_context_summary_raises: the date range of an empty frame
\* is rendered blank and a block with empty sections is returned
build_context_summary_raises_mut ==
    /\ summary_pc = "loaded"
    /\ table = <<>>
    /\ report' = [kind |-> "report", total_spend |-> 0, total_txns |-> 0,
                  cat_summary |-> <<>>, top_merchants |-> <<>>,
                  monthly |-> <<>>]
    /\ block' = [kind |-> "block", date_range |-> <<>>,
                 total_spend |-> format_comma_2f(0),
                 total_txns |-> format_comma(0), avg_txn |-> nan,
                 max_txn |-> nan, fraud_count |-> format_comma(0),
                 fraud_pct |-> nan, cat_lines |-> <<>>, merch_lines |-> <<>>,
                 monthly_lines |-> <<>>, peak_day |-> "", peak_hour |-> <<>>]
    /\ summary_pc' = "summarized"
    /\ UNCHANGED <<table, summary_table, cached_agent, quicksort_ties>>
    /\ UNCHANGED <<agentVars, appVars, dataVars, dashVars>>

\* build_context_summary(df) on a frame without rows: NaT.strftime raises
\* ValueError before anything is rendered
build_context_summary_raises ==
    /\ summary_pc = "loaded"
    /\ datetime_min(table) = NaT
    /\ summary_pc' = "raised"
    /\ UNCHANGED <<table, report, block, summary_table, cached_agent,
                   quicksort_ties>>
    /\ UNCHANGED <<agentVars, appVars, dataVars, dashVars>>

\* get_agent: build_agent(context) on the block just built, the key being set
get_agent_builds ==
    /\ summary_pc = "summarized"
    /\ GROQ_API_KEY # ""
    /\ cached_agent = NoAgent
    /\ cached_agent' = FinSightAgent(block)
    /\ UNCHANGED <<table, report, block, summary_table, summary_pc,
                   quicksort_ties>>
    /\ UNCHANGED <<agentVars, appVars, dataVars, dashVars>>

\* get_summary(df), the Dashboard's category table
get_summary ==
    /\ summary_pc \in {"loaded", "summarized"}
    /\ summary_table = NoTable
    /\ summary_table' =
        [kind |-> "table", rows |-> get_summary_table(table, quicksort_ties)]
    /\ UNCHANGED <<table, report, block, cached_agent, summary_pc,
                   quicksort_ties>>
    /\ UNCHANGED <<agentVars, appVars, dataVars, dashVars>>

swap(s, i) ==
    [k \in DOMAIN s |->
        IF k = i THEN s[i + 1] ELSE IF k = i + 1 THEN s[i] ELSE s[k]]

\* the same records in another order
Reorderings(s) ==
    ({ swap(s, i) : i \in 1..(Len(s) - 1) } \cup {Reverse(s)}) \ {s}

\* the caller runs both functions again on the same records in another order
summarize_reordered ==
    /\ summary_pc = "summarized"
    /\ summary_table # NoTable
    /\ \E t \in Reorderings(table) :
        /\ table' = t
        /\ report' = aggregates(t, quicksort_ties)
        /\ block' = context_block(report')
        /\ summary_table' =
            [kind |-> "table", rows |-> get_summary_table(t, quicksort_ties)]
    /\ summary_pc' = "reordered"
    /\ UNCHANGED <<cached_agent, quicksort_ties>>
    /\ UNCHANGED <<agentVars, appVars, dataVars, dashVars>>

InitSummarySpec ==
    /\ InitSummary
    /\ AgentUnused
    /\ InitApp
    /\ GROQ_API_KEY # ""
    /\ NoData
    /\ NoDashboard

NextSummary ==
    \/ build_context_summary
    \/ build_context_summary_raises
    \/ get_agent_builds
    \/ get_summary
    \/ summarize_reordered

SpecSummary == InitSummarySpec /\ [][NextSummary]_vars

(***************************************************************************)
(* The Dashboard page and the sidebar filters (app.py)                     *)
(***************************************************************************)
\* rows of the DataFrame get_data returns to the Dashboard and to get_agent
MaxDashRows == 2

\* the records of the first four months of the pool
DashPool ==
    { r \in RecordPool :
        Instant(r.datetime) < Instant(Stamp(2019, 4, 1, 0)) }

\* the DataFrames get_data(sample_size) returns
DashFrames ==
    { [i \in DOMAIN f |-> tidy(f[i])] : f \in SeqsUpTo(DashPool, MaxDashRows) }

\* app.py:141-142: df_full, or df_full without the rows flagged as fraud
fraud_filtered(frame, include) ==
    IF include THEN frame ELSE SelectSeq(frame, LAMBDA r : r.is_fraud = 0)

\* app.py:145-150: the months from the first to the last record, as periods;
\* an empty frame has none
month_options(frame) ==
    IF frame = <<>> THEN {}
    ELSE LET first == datetime_min(frame)
             last == datetime_max(frame)
         IN  period(first.year, first.month)..period(last.year, last.month)

\* pd.to_datetime(label): the first instant of the month
month_start(p) == Instant(Stamp(p \div 12, (p % 12) + 1, 1, 0))

\* pd.to_datetime(label) + pd.offsets.MonthEnd(0): midnight at the start of
\* the last day of the month
month_end(p) ==
    LET y == p \div 12
        m == (p % 12) + 1
    IN  Instant(Stamp(y, m, DaysInMonth(y, m), 0))

\* app.py:161-163
date_filtered(frame, range) ==
    SelectSeq(frame, LAMBDA r :
        /\ Instant(r.datetime) >= month_start(range[1])
        /\ Instant(r.datetime) <= month_end(range[2]))

\* the frame the Dashboard shows for a setting of the two filters
shown_frame(frame, include, range) ==
    date_filtered(fraud_filtered(frame, include), range)

\* f"{x:,.0f}" of an amount of whole cents
format_comma_0f(cents) == group3(digits(round_half_even(cents, 100)))

\* app.py:182-192, the Key Metrics row
key_metrics(frame, ties) ==
    LET total_spend == SumSeq(Column(frame, "amount"))
        top_cat == get_summary_table(frame, ties)[1].spending_category
    IN  [kind |-> "kpis",
         total_spend |-> format_comma_0f(total_spend),
         total_txns |-> format_comma(Len(frame)),
         avg_txn |-> format_2f(total_spend, Len(frame)),
         top_cat |-> top_cat,
         top_cat_pct |->
            format_1f(1000 * group_sum(frame, "spending_category", top_cat),
                      total_spend)]

InitDashboard ==
    /\ table \in DashFrames
    /\ report = NoReport
    /\ block = NoBlock
    /\ summary_table = NoTable
    /\ cached_agent = NoAgent
    /\ summary_pc = "loaded"
    /\ quicksort_ties = "kept"
    /\ include_fraud = FALSE
    /\ date_range = <<>>
    /\ kpis = NoKpis
    /\ dash_pc = "idle"

\* a script run on the Dashboard page with the toggle at `include` and the
\* slider at `range`: the filters, then the Key Metrics row
dashboard_run ==
    \E include \in BOOLEAN :
        LET kept == fraud_filtered(table, include)
        IN  /\ kept # <<>>
            /\ \E a, b \in month_options(kept) :
                /\ a <= b
                /\ date_filtered(kept, <<a, b>>) # <<>>
                /\ include_fraud' = include
                /\ date_range' = <<a, b>>
                /\ kpis' = key_metrics(shown_frame(table, include, <<a, b>>),
                                       quicksort_ties)
                /\ dash_pc' = "shown"
                /\ UNCHANGED <<agentVars, appVars, dataVars, summaryVars>>

\* a script run whose filters leave no row: the month range of an empty
\* frame (app.py:145-150) or the caption and get_summary(df).iloc[0] of an
\* empty selection (app.py:176-185) raise
dashboard_raises ==
    \E include \in BOOLEAN :
        LET kept == fraud_filtered(table, include)
        IN  /\ \/ kept = <<>>
               \/ \E a, b \in month_options(kept) :
                    /\ a <= b
                    /\ date_filtered(kept, <<a, b>>) = <<>>
            /\ include_fraud' = include
            /\ dash_pc' = "raised"
            /\ kpis' = NoKpis
            /\ UNCHANGED date_range
            /\ UNCHANGED <<agentVars, appVars, dataVars, summaryVars>>

InitDashboardSpec ==
    /\ InitDashboard
    /\ AgentUnused
    /\ InitApp
    /\ GROQ_API_KEY # ""
    /\ NoData

NextDashboard ==
    \/ dashboard_run
    \/ dashboard_raises
    \/ build_context_summary
    \/ build_context_summary_raises
    \/ get_agent_builds

SpecDashboard == InitDashboardSpec /\ [][NextDashboard]_vars

(***************************************************************************)
(* Helpers of the properties                                               *)
(***************************************************************************)
\* s is empty or holds whitespace characters only
AllWhitespace(s) == \A i \in 1..Len(s) : s[i] \in Whitespace

IsPrefix(a, b) == Len(a) <= Len(b) /\ SubSeq(b, 1, Len(a)) = a

\* the last n elements of xs, n <= Len(xs)
LastN(xs, n) == SubSeq(xs, Len(xs) - n + 1, Len(xs))

\* the prior history carried by a request: all but the system message and
\* the new question
PriorOf(req) == SubSeq(req, 2, Len(req) - 1)

(***************************************************************************)
(* Properties of FinSightAgent, specification Spec                         *)
(***************************************************************************)

C2_BlankQuestionIsNoOp ==
    [][(pc = "Idle" /\ AllWhitespace(question') /\ result'.kind # "none")
         => /\ result' = Returned(FALLBACK)
            /\ pc' = "Idle"
            /\ request' = NoRequest
            /\ history' = history]_vars

\* C2 witness: a whitespace-only question was answered with the fallback on an
\* agent that holds a turn
C2_Witness ==
    /\ result = Returned(FALLBACK)
    /\ question = <<" ", "\t">>
    /\ Len(history) >= 2
    /\ pc = "Idle"

\* C3: with max_turns = 10 a request carries at most 10 prior turns (20
\* messages) however many turns are stored, and asking never removes a stored
\* message: during an ask the stored history only grows at its end.
C3_WindowBoundsRequestOnly ==
    /\ []((max_turns = MEMORY_TURNS /\ pc = "AwaitingCompletion")
            => /\ Len(PriorOf(request)) <= 2 * MEMORY_TURNS
               /\ Len(PriorOf(request)) <= Len(history))
    /\ [][(max_turns = MEMORY_TURNS
            /\ (pc = "AwaitingCompletion" \/ pc' = "AwaitingCompletion"))
            => IsPrefix(history, history')]_vars

\* C3 witness: the 12th ask of an agent with max_turns = 10: 11 turns stored,
\* 10 of them sent
C3_Witness ==
    /\ max_turns = MEMORY_TURNS
    /\ pc = "AwaitingCompletion"
    /\ Len(history) = 2 * (MEMORY_TURNS + 1)
    /\ Len(PriorOf(request)) = 2 * MEMORY_TURNS

\* C4: a successful ask appends exactly one turn to the end of the history,
\* the question as it was passed followed by the reply as it was received, and
\* returns that reply; the earlier messages stay as they were.
C4_SuccessAppendsOneTurn ==
    [][(pc = "AwaitingCompletion" /\ result'.kind = "returned")
         => /\ history' = history \o
                  <<HumanMessage(question), AIMessage(result'.value)>>
            /\ question' = question
            /\ request[Len(request)] = HumanMessage(question)
            /\ result'.value \in Replies]_vars

\* C4 witness: the empty string was returned as the reply of the second turn
\* and is stored, after a question kept with its surrounding whitespace
C4_Witness ==
    /\ result = Returned(<<>>)
    /\ Len(history) = 4
    /\ history[4] = AIMessage(<<>>)
    /\ history[3] = HumanMessage(<<" ", "a", " ">>)

\* C5: every request is one system message, then a suffix of the stored
\* history in stored order, then the new question as the last human message;
\* the system message is the one bound at construction, which never changes.
C5_RequestComposition ==
    /\ [](pc = "AwaitingCompletion" =>
            /\ Len(request) >= 2
            /\ request[1] = SystemMessage(chain)
            /\ request[Len(request)] = HumanMessage(question)
            /\ \A i \in 2..Len(request) : request[i].type # "system"
            /\ Len(PriorOf(request)) <= Len(history)
            /\ PriorOf(request) = LastN(history, Len(PriorOf(request))))
    /\ [][chain' = chain]_vars

\* C5 witness: a request that carries a window shorter than the stored history
C5_Witness ==
    /\ pc = "AwaitingCompletion"
    /\ max_turns = 2
    /\ Len(history) = 6
    /\ Len(request) = 6
    /\ history[2] # history[4]
    /\ history[4] # history[6]

\* C6: clear_history empties the history from any state and changes neither
\* the bound system prompt nor max_turns; a second clear right after a clear
\* changes nothing; an ask on an empty history sends no prior turn.
C6_ClearHistory ==
    /\ [][(pc = "Idle" /\ result'.kind = "none")
            => /\ history' = <<>>
               /\ chain' = chain
               /\ max_turns' = max_turns
               /\ pc' = "Idle"
               /\ request' = request
               /\ ((history = <<>> /\ result.kind = "none") => UNCHANGED vars)]_vars
    /\ []((pc = "AwaitingCompletion" /\ history = <<>>)
            => PriorOf(request) = <<>>)
    /\ [][max_turns' = max_turns]_vars

\* C6 witness: the history was cleared after an ask had been made
C6_Witness ==
    /\ result.kind = "none"
    /\ history = <<>>
    /\ question = <<" ", "a", " ">>
    /\ pc = "Idle"

(***************************************************************************)
(* Properties of FinSightAgent, specification SpecLive                     *)
(***************************************************************************)

UsesAgent(s) ==
    /\ page[s] = "AI Agent"
    /\ GROQ_API_KEY # ""
    /\ sample_size[s] \in DOMAIN agents

\* the transcript of a session read as a list of human and AI messages
RECURSIVE AsHistory(_)
AsHistory(ms) ==
    IF ms = <<>> THEN <<>>
    ELSE <<[type |-> IF Head(ms).role = "user" THEN "human" ELSE "ai",
            content |-> Head(ms).content]>> \o AsHistory(Tail(ms))

\* C8: every chat session uses a FinSightAgent instance of its own: no two
\* sessions hold the same cached instance (the instance of a session is the
\* cache entry of its sample size).
C8_OneAgentPerSession ==
    \A s \in Sessions, t \in Sessions :
        (s # t /\ UsesAgent(s) /\ UsesAgent(t)) => sample_size[s] # sample_size[t]

\* C9: whenever a session is not inside an ask, the transcript it shows holds
\* the same questions and answers, in the same order, as the history of the
\* agent it uses.
C9_TranscriptIsHistory ==
    \A s \in Sessions :
        (UsesAgent(s) /\ run[s].pc = "Idle")
            => AsHistory(messages[s]) = agents[sample_size[s]].history

(***************************************************************************)
(* Properties of categorize, specification SpecData                        *)
(***************************************************************************)
CanonicalCategories == { CATEGORY_ORDER[i] : i \in 1..Len(CATEGORY_ORDER) }

\* C10: categorize never raises on a frame that has a category column,
\* whatever the values in it; a raw category that is a key of CATEGORY_MAP gets
\* its mapped label, any other value, the missing value included, gets
\* "Miscellaneous"; so every output row carries one of the 7 canonical
\* categories.
C10_CategorizeIsTotal ==
    /\ Cardinality(CanonicalCategories) = 7
    /\ (data_pc = "raised" => ~has_category_column(df))
    /\ (data_pc = "categorized" =>
          /\ Len(out) = Len(df)
          /\ \A i \in 1..Len(df) :
               /\ out[i].category = df[i].category
               /\ out[i].amount = df[i].amount
               /\ (df[i].category \in DOMAIN CATEGORY_MAP
                     => out[i].spending_category = CATEGORY_MAP[df[i].category])
               /\ (df[i].category \notin DOMAIN CATEGORY_MAP
                     => out[i].spending_category = "Miscellaneous")
               /\ out[i].spending_category \in CanonicalCategories)

\* C10 witness: a frame with a missing category and an unknown label was
\* categorized
C10_Witness ==
    /\ data_pc = "categorized"
    /\ Len(df) = 2
    /\ df[1].category = NaN
    /\ df[2].category = "Grocery_pos"
    /\ out[1].spending_category = "Miscellaneous"
    /\ out[2].spending_category = "Miscellaneous"

(***************************************************************************)
(* Properties of build_context_summary and get_summary, specification      *)
(* SpecSummary                                                             *)
(***************************************************************************)
\* the rows of the frame whose canonical category is c
RowsIn(frame, c) == { i \in DOMAIN frame : frame[i].spending_category = c }

RECURSIVE AmountOver(_, _)
AmountOver(frame, I) ==
    IF I = {} THEN 0
    ELSE LET i == CHOOSE i \in I : TRUE
         IN  frame[i].amount + AmountOver(frame, I \ {i})

Injective(s) == \A i, j \in DOMAIN s : s[i] = s[j] => i = j

HasReport == report # NoReport

HasSummaryTable == summary_table # NoTable /\ table # <<>>

\* the (amount, raw category) pairs of the frame, in order
AmountsAndCategories(frame) ==
    [i \in DOMAIN frame |-> <<frame[i].amount, frame[i].category>>]

\* C11: for a frame with rows, the category breakdown (of the context block
\* and of get_summary) has exactly one row per canonical category that has
\* at least one record; a row's total is the sum of the amounts of that
\* category's records and its count their number; the row totals add up to
\* the total amount and the row counts to the transaction count.  For
\* (100, grocery_pos), (50, unknown_x) the total is 150 and the rows are
\* (Food & Groceries, 100, 1), (Miscellaneous, 50, 1).
C11_CategoryBreakdown ==
    /\ HasReport =>
        LET rows == report.cat_summary
            names == Column(rows, "spending_category")
        IN  /\ Injective(names)
            /\ Values(names) = { c \in CanonicalCategories :
                                    RowsIn(table, c) # {} }
            /\ \A i \in DOMAIN rows :
                /\ rows[i].total = AmountOver(table, RowsIn(table, names[i]))
                /\ rows[i].count = Cardinality(RowsIn(table, names[i]))
            /\ SumSeq(Column(rows, "total")) = report.total_spend
            /\ SumSeq(Column(rows, "count")) = report.total_txns
            /\ report.total_spend = AmountOver(table, DOMAIN table)
            /\ report.total_txns = Len(table)
            /\ (AmountsAndCategories(table)
                    = << <<10000, "grocery_pos">>, <<5000, "unknown_x">> >>
                 => /\ report.total_spend = 15000
                    /\ rows = << [spending_category |-> "Food & Groceries",
                                  total |-> 10000, count |-> 1],
                                 [spending_category |-> "Miscellaneous",
                                  total |-> 5000, count |-> 1] >>)
    /\ HasSummaryTable =>
        LET rows == summary_table.rows
            names == Column(rows, "spending_category")
        IN  /\ Injective(names)
            /\ Values(names) = { c \in CanonicalCategories :
                                    RowsIn(table, c) # {} }
            /\ \A i \in DOMAIN rows :
                /\ rows[i].total_spent
                      = AmountOver(table, RowsIn(table, names[i]))
                /\ rows[i].transaction_count
                      = Cardinality(RowsIn(table, names[i]))
            /\ SumSeq(Column(rows, "total_spent"))
                  = AmountOver(table, DOMAIN table)
            /\ SumSeq(Column(rows, "transaction_count")) = Len(table)

\* C11 witness: the frame (100, grocery_pos), (50, unknown_x) went through
\* build_context_summary and get_summary
C11_Witness ==
    /\ HasReport
    /\ summary_table # NoTable
    /\ AmountsAndCategories(table)
          = << <<10000, "grocery_pos">>, <<5000, "unknown_x">> >>
    /\ report.total_spend = 15000
    /\ Len(report.cat_summary) = 2
    /\ report.cat_summary[2].spending_category = "Miscellaneous"

Rank(s, x) == CHOOSE i \in DOMAIN s : s[i] = x

\* row a is ranked before row b: larger total first, equal totals in
\* ascending lexical order of the name
RankedBefore(totalA, nameA, totalB, nameB, sorted) ==
    \/ totalA > totalB
    \/ totalA = totalB /\ Rank(sorted, nameA) < Rank(sorted, nameB)

MerchantRows(frame, m) == { i \in DOMAIN frame : frame[i].merchant = m }

Periods(frame) ==
    { period(frame[i].year, frame[i].month) : i \in DOMAIN frame }

PeriodRows(frame, p) ==
    { i \in DOMAIN frame : period(frame[i].year, frame[i].month) = p }

\* C14: the monthly section lists the 6 most recent (year, month) periods
\* that have records, or all of them when there are fewer than 6, in
\* chronological order whatever the order of the rows, each with the sum of
\* the amounts of its records.
C14_MonthlyWindow ==
    HasReport =>
        LET rows == report.monthly
            listed == [i \in DOMAIN rows |->
                          period(rows[i].year, rows[i].month)]
        IN  /\ Len(rows) = Min(6, Cardinality(Periods(table)))
            /\ Values(listed) \subseteq Periods(table)
            /\ \A i, j \in DOMAIN rows : i < j => listed[i] < listed[j]
            /\ \A p \in Values(listed) :
                    \A q \in Periods(table) \ Values(listed) : q < p
            /\ \A i \in DOMAIN rows :
                /\ rows[i].amount
                      = AmountOver(table, PeriodRows(table, listed[i]))
                /\ rows[i].month_name
                      = <<MonthAbbr[rows[i].month], rows[i].year>>
            /\ Len(block.monthly_lines) = Len(rows)
            /\ \A i \in DOMAIN rows :
                    block.monthly_lines[i].month_name = rows[i].month_name

\* C14 witness: a frame with more than 6 periods, its rows from the latest
\* to the earliest, was summarized: 6 periods are listed, the first in 2018
\* and the last in 2019
C14_Witness ==
    /\ HasReport
    /\ Cardinality(Periods(table)) > 6
    /\ period(table[1].year, table[1].month)
          > period(table[2].year, table[2].month)
    /\ Len(report.monthly) = 6
    /\ report.monthly[1].year = 2018
    /\ report.monthly[6].year = 2019

HourRows(frame, h) == { i \in DOMAIN frame : frame[i].hour = h }

DayRows(frame, d) == { i \in DOMAIN frame : frame[i].day_of_week = d }

\* C15: the peak hour and the peak day are the hour and the day with the
\* largest summed amount; among hours with that sum the lowest wins, among
\* days with that sum the one that comes first in the week from Monday.
C15_BehavioralPeak ==
    HasReport =>
        LET hours == Values(Column(table, "hour"))
            days == Values(Column(table, "day_of_week"))
            byHour(h) == AmountOver(table, HourRows(table, h))
            byDay(d) == AmountOver(table, DayRows(table, d))
        IN  /\ report.peak_hour \in hours
            /\ \A h \in hours :
                    \/ byHour(h) < byHour(report.peak_hour)
                    \/ /\ byHour(h) = byHour(report.peak_hour)
                       /\ report.peak_hour <= h
            /\ report.peak_day \in days
            /\ \A d \in days :
                    \/ byDay(d) < byDay(report.peak_day)
                    \/ /\ byDay(d) = byDay(report.peak_day)
                       /\ Rank(WeekDays, report.peak_day) <= Rank(WeekDays, d)

\* no section and no field of the block is empty
NothingBlank(b) ==
    /\ b.cat_lines # <<>>
    /\ b.merch_lines # <<>>
    /\ b.monthly_lines # <<>>
    /\ b.date_range # <<>>
    /\ \A f \in {"total_spend", "total_txns", "avg_txn", "max_txn",
                  "fraud_count", "fraud_pct", "peak_hour"} : b[f] # <<>>
    /\ b.peak_day \in Values(WeekDays)
    /\ \A i \in DOMAIN b.cat_lines :
            /\ b.cat_lines[i].total # <<>>
            /\ b.cat_lines[i].pct # <<>>
            /\ b.cat_lines[i].count # <<>>
    /\ \A i \in DOMAIN b.merch_lines : b.merch_lines[i].spend # <<>>
    /\ \A i \in DOMAIN b.monthly_lines : b.monthly_lines[i].amount # <<>>

IsDigit(ch) == ch \in Values(Digit)

\* the number a sequence of digits denotes
RECURSIVE Number(_)
Number(s) ==
    IF s = <<>> THEN 0
    ELSE 10 * Number(SubSeq(s, 1, Len(s) - 1)) + Rank(Digit, s[Len(s)]) - 1

\* s is digits, a point and `places` digits
IsDecimal(s, places) ==
    /\ Len(s) >= places + 2
    /\ s[Len(s) - places] = "."
    /\ \A i \in DOMAIN s : i # Len(s) - places => IsDigit(s[i])

\* the value of a rendered number in units of its last place, separators
\* and the point left out
Unscaled(s) == Number(SelectSeq(s, IsDigit))

Abs(x) == IF x < 0 THEN -x ELSE x

\* C18: the category lines follow the category rows; the percentage of a
\* line is 100 * category total / total amount, the total amount being the
\* one shown in the overview, rendered to one decimal (to the nearest
\* tenth), whenever the total amount is above zero; totals of 500, 300 and
\* 200 out of 1000 give 50.0, 30.0 and 20.0 in that order.
C18_CategoryShare ==
    block # NoBlock =>
        LET rows == report.cat_summary
            lines == block.cat_lines
            total_amount == Unscaled(block.total_spend)
        IN  /\ total_amount = AmountOver(table, DOMAIN table)
            /\ Len(lines) = Len(rows)
            /\ \A i \in DOMAIN lines :
                /\ lines[i].name = rows[i].spending_category
                /\ total_amount > 0 =>
                    /\ IsDecimal(lines[i].pct, 1)
                    /\ 2 * Abs(Unscaled(lines[i].pct) * total_amount
                                 - 1000 * rows[i].total) <= total_amount
            /\ (Column(rows, "total") = <<50000, 30000, 20000>> =>
                    Column(lines, "pct") = << <<"5", "0", ".", "0">>,
                                             <<"3", "0", ".", "0">>,
                                             <<"2", "0", ".", "0">> >>)

\* C18 witness: categories of 500.00, 300.00 and 200.00 were rendered with
\* the overview total 1,000.00
C18_Witness ==
    /\ block # NoBlock
    /\ Column(report.cat_summary, "total") = <<50000, 30000, 20000>>
    /\ block.total_spend = <<"1", ",", "0", "0", "0", ".", "0", "0">>
    /\ block.cat_lines[1].pct = <<"5", "0", ".", "0">>
    /\ block.cat_lines[3].pct = <<"2", "0", ".", "0">>

FraudRows(frame) == { i \in DOMAIN frame : frame[i].is_fraud = 1 }

\* the number of digits after the point of a rendered number
Places(s) == Len(s) - Rank(s, ".")

\* C19: the fraud count is the number of rows flagged as fraud among exactly
\* the rows passed, the transaction count the number of those rows, and the
\* fraud count never exceeds it; the fraud percentage shown is 100 * fraud
\* count / transaction count (to the nearest unit of its last place) and is
\* 0 when no row is flagged.
C19_FraudRatio ==
    HasReport =>
        LET shown == Unscaled(block.fraud_pct)
            unit == 10 ^ Places(block.fraud_pct)
        IN  /\ report.fraud_count = Cardinality(FraudRows(table))
            /\ report.total_txns = Len(table)
            /\ report.fraud_count <= report.total_txns
            /\ Unscaled(block.fraud_count) = report.fraud_count
            /\ Unscaled(block.total_txns) = report.total_txns
            /\ 2 * Abs(shown * report.total_txns
                         - 100 * unit * report.fraud_count)
                  <= report.total_txns
            /\ (FraudRows(table) = {} => shown = 0)

\* C19 witness: one fraud row among three rows, shown as 33.33
C19_Witness ==
    /\ HasReport
    /\ Len(table) = 3
    /\ Cardinality(FraudRows(table)) = 1
    /\ report.fraud_count = 1
    /\ block.fraud_pct = <<"3", "3", ".", "3", "3">>

\* s is an amount with a comma before every group of three digits of the
\* whole part, a point and two decimals
IsCurrency(s) ==
    /\ Len(s) >= 4
    /\ s[Len(s) - 2] = "."
    /\ IsDigit(s[Len(s) - 1])
    /\ IsDigit(s[Len(s)])
    /\ s[1] # ","
    /\ \A i \in 1..(Len(s) - 3) :
            IF (Len(s) - 2 - i) % 4 = 0 THEN s[i] = "," ELSE IsDigit(s[i])

\* C20: in the context block the total spend, the average transaction, the
\* largest transaction and every category, merchant and monthly total are
\* rendered with thousands separators and two decimals, and the category
\* shares (of a total above zero) and the fraud percentage with one decimal.
C20_NumberFormats ==
    block # NoBlock =>
        /\ IsCurrency(block.total_spend)
        /\ IsCurrency(block.avg_txn)
        /\ IsCurrency(block.max_txn)
        /\ \A i \in DOMAIN block.cat_lines :
                /\ IsCurrency(block.cat_lines[i].total)
                /\ report.total_spend > 0 =>
                        IsDecimal(block.cat_lines[i].pct, 1)
        /\ \A i \in DOMAIN block.merch_lines :
                IsCurrency(block.merch_lines[i].spend)
        /\ \A i \in DOMAIN block.monthly_lines :
                IsCurrency(block.monthly_lines[i].amount)
        /\ IsDecimal(block.fraud_pct, 1)

Turns(h) == Len(h) \div 2

\* C21: for every max_turns an agent can be constructed with, 0 and 1
\* included, and every stored history of N turns, the history sent by ask is
\* exactly the last min(N, max_turns) turns of the stored history, in stored
\* order; with max_turns = 0 no prior turn is sent.
C21_WindowIsLastTurns ==
    pc = "AwaitingCompletion" =>
        /\ PriorOf(request)
              = LastN(history, 2 * Min(Turns(history), max_turns))
        /\ (max_turns = 0 => PriorOf(request) = <<>>)

\* h is whole turns: question, answer, question, answer, ...
Alternates(h) ==
    /\ Len(h) % 2 = 0
    /\ \A i \in DOMAIN h :
            h[i].type = IF i % 2 = 1 THEN "human" ELSE "ai"

IsSuffix(a, b) == Len(a) <= Len(b) /\ LastN(b, Len(a)) = a

C23_OverlapKeepsHistory ==
    /\ [](\A k \in DOMAIN agents : Alternates(agents[k].history))
    /\ [][\A s \in Sessions :
            (run[s].pc = "Thinking" /\ run'[s].pc = "Idle" /\ agents' # agents)
                => LET k == run[s].key
                   IN  /\ IsPrefix(agents[k].history, agents'[k].history)
                       /\ Len(agents'[k].history)
                             = Len(agents[k].history) + 2
                       /\ (run[s].cleared =>
                             Len(agents'[k].history) > 2)]_vars

(***************************************************************************)
(* Properties of the Dashboard and the agent's context, specification      *)
(* SpecDashboard                                                           *)
(***************************************************************************)
\* C24: for every setting of the fraud toggle and of the date-range slider,
\* the agent's context block is computed over the rows the Dashboard shows:
\* the transaction count of the block equals the count in the Key Metrics
\* row and the total of the block equals the Dashboard's total (which is
\* shown in whole dollars).
C24_AgentSeesDashboardData ==
    (dash_pc = "shown" /\ cached_agent # NoAgent) =>
        /\ cached_agent = FinSightAgent(block)
        /\ Unscaled(block.total_txns) = Unscaled(kpis.total_txns)
        /\ 2 * Abs(Unscaled(block.total_spend)
                     - 100 * Unscaled(kpis.total_spend)) <= 100

====
